---- MODULE Spec2Model ----
(***************************************************************************)
(* The EC2 deployment script src/main.py as a state machine.               *)
(*                                                                         *)
(* Each orchestrator run (one execution of main()) is a process whose      *)
(* program counter walks through the cloud calls of main.py in source      *)
(* order.  One action is one cloud call together with the handling of its  *)
(* answer (the try/except around it).  The cloud control plane is the      *)
(* shared state: the networks, the security groups and the instances.      *)
(* Every call may be rejected by the provider (a botocore ClientError);    *)
(* the waiter raises WaiterError, which is not a ClientError.              *)
(***************************************************************************)
EXTENDS Integers, Sequences, FiniteSets, TLC

(* ----------------------------- bounds --------------------------------- *)

\* Polls of the instance-running waiter before it gives up (boto3: 40).
WaiterMaxAttempts == 2

\* The two independent orchestrator runs (two executions of main()) whose
\* cloud calls may interleave in any way, or follow one another.
Runs == {1, 2}

(* ------------------------ configuration (main.py) --------------------- *)

EC2_SECURITY_GROUP_NAME == "langraph-web-sg"

EC2_TAG_NAME == "LangraphWebServer"

MinCount == 1

MaxCountTwo == MinCount + 1

MaxCount == 1

None == "None"

\* The networks of the account.  describe_vpcs() lists them in no
\* particular order, and only one of them is the account's default network.
DefaultVpc == "vpc-default"

OtherVpc == "vpc-other"

AllVpcs == {DefaultVpc, OtherVpc}

\* One entry of IpPermissions: protocol, port range, source range.
IngressRule(port) ==
    [IpProtocol |-> "tcp", FromPort |-> port, ToPort |-> port, CidrIp |-> "0.0.0.0/0"]

\* The rule set main.py authorizes: SSH and HTTP from anywhere.
IpPermissions == {IngressRule(22), IngressRule(80)}

\* Rule sets a group that existed before the runs may carry.
PreExistingRuleSets == {IpPermissions, {IngressRule(443)}}

(* ----------------------------- exceptions ----------------------------- *)

ClientError(code, operation) ==
    [cls |-> "ClientError", Code |-> code, Operation |-> operation]

WaiterErrorAsClientError == [cls |-> "ClientError", Code |-> "WaiterError", Operation |-> "wait_until_running"]

\* instance.wait_until_running() raises botocore's WaiterError.
WaiterError == [cls |-> "WaiterError", Code |-> "Max attempts exceeded", Operation |-> "wait_until_running"]

\* vpcs['Vpcs'][0] on an empty list.
IndexError == [cls |-> "IndexError", Code |-> "list index out of range", Operation |-> "describe_vpcs"]

\* str(e) of a ClientError, as the words of its message.
StrOf(e) ==
    <<"An error occurred (", e.Code, ") when calling the ", e.Operation, " operation">>

\* needle in s
Contains(needle, s) == \E i \in 1..Len(s) : s[i] = needle

IsDuplicateAnyError(e) == TRUE

\* "InvalidGroup.Duplicate" in str(e)
IsDuplicate(e) == Contains("InvalidGroup.Duplicate", StrOf(e))

\* except ClientError as e
ExceptClientError(e) == e.cls = "ClientError"

(* ------------------------- how a run can end -------------------------- *)

StillRunning == [kind |-> "running", cls |-> None, status |-> -1]

\* main() returned.
Returned == [kind |-> "returned", cls |-> None, status |-> 0]

\* sys.exit(n)
SysExit(n) == [kind |-> "sys.exit", cls |-> "SystemExit", status |-> n]

\* An exception no handler caught: traceback, exit status 1.
Uncaught(e) == [kind |-> "uncaught", cls |-> e.cls, status |-> 1]

(* ------------------------------ state --------------------------------- *)

VARIABLES
    vpcs,            \* cloud: the networks of the account
    groups,          \* cloud: the security groups, a set of records
    nextGroupId,     \* cloud: the next group identifier it assigns
    instances,       \* cloud: instance id -> instance record
    pc,              \* run -> position in main.py
    vpc_id,          \* run -> launch_ec2_instance's vpc_id
    sg_id,           \* run -> launch_ec2_instance's sg_id
    instance,        \* run -> the instance object (id and cached attributes)
    attempts,        \* run -> polls made by wait_until_running
    exit,            \* run -> how the process ended
    log,             \* run -> levels of the log records emitted
    trace,           \* run -> the steps taken so far (history)
    resolvedBefore   \* run -> runs whose resolver had returned when this
                     \*        run's resolver was called (history)

vars == <<vpcs, groups, nextGroupId, instances, pc, vpc_id, sg_id, instance,
          attempts, exit, log, trace, resolvedBefore>>

cloudVars == <<vpcs, groups, nextGroupId, instances>>

\* An instance without a public address (public_ip_address is None).
NoAddress == <<>>

\* The public address the provider assigns to instance i.
PublicIpOf(i) == <<"203.0.113", i>>

NoInstance == [id |-> 0, public_ip_address |-> NoAddress]

Step(op, arg, res) == [op |-> op, arg |-> arg, res |-> res]

\* The groups a by-group-name request sees in network vpc.
GroupsNamed(name, vpc) == {g \in groups : g.GroupName = name /\ g.VpcId = vpc}

\* The starting cloud states: any set of networks, and in each network at
\* most one group of the configured name (the provider keeps group names
\* unique per network).
GroupChoices(vpc, id) ==
    {{}} \cup {{[GroupId |-> id, GroupName |-> EC2_SECURITY_GROUP_NAME,
                 VpcId |-> vpc, IpPermissions |-> rs, createdBy |-> 0,
                 authorizedBy |-> {}]}
               : rs \in PreExistingRuleSets}

Init ==
    /\ vpcs \in SUBSET AllVpcs
    /\ \E gd \in GroupChoices(DefaultVpc, 1), go \in GroupChoices(OtherVpc, 2) :
          /\ groups = {g \in gd \cup go : g.VpcId \in vpcs}
    /\ nextGroupId = 3
    /\ instances = <<>>
    /\ pc = [r \in Runs |-> "main"]
    /\ vpc_id = [r \in Runs |-> None]
    /\ sg_id = [r \in Runs |-> 0]
    /\ instance = [r \in Runs |-> NoInstance]
    /\ attempts = [r \in Runs |-> 0]
    /\ exit = [r \in Runs |-> StillRunning]
    /\ log = [r \in Runs |-> <<>>]
    /\ trace = [r \in Runs |-> <<>>]
    /\ resolvedBefore = [r \in Runs |-> {}]

(* ------------------------- steps shared by actions -------------------- *)

Logged(r, levels) == log' = [log EXCEPT ![r] = @ \o levels]

Traced(r, steps) == trace' = [trace EXCEPT ![r] = @ \o steps]

Goto(r, label) == pc' = [pc EXCEPT ![r] = label]

\* The process ends here.
Ends(r, how) ==
    /\ pc' = [pc EXCEPT ![r] = "exit"]
    /\ exit' = [exit EXCEPT ![r] = how]

\* An exception that reaches the top of main(): no handler, no log record.
Propagates(r, e) ==
    /\ Ends(r, Uncaught(e))
    /\ UNCHANGED log

\* Any call can be rejected by the provider for reasons of its own
\* (permissions, throttling, quota).
Rejection(operation) == ClientError("UnauthorizedOperation", operation)

ResolverReturned(q) == \E i \in 1..Len(trace[q]) : trace[q][i].op = "return sg_id"

(* --------------------------- main(), line 139 ------------------------- *)

Main(r) ==
    /\ pc[r] = "main"
    /\ Goto(r, "describe_vpcs")
    /\ Logged(r, <<"INFO">>)
    /\ UNCHANGED <<cloudVars, vpc_id, sg_id, instance, attempts, exit, trace,
                   resolvedBefore>>

(* ----------------- launch_ec2_instance(), lines 96-98 ----------------- *)

DescribeVpcs(r) ==
    /\ pc[r] = "describe_vpcs"
    /\ \/ \* the provider rejects the call: outside any try block
          /\ Propagates(r, Rejection("DescribeVpcs"))
          /\ Traced(r, <<Step("describe_vpcs", 0, "rejected")>>)
          /\ UNCHANGED vpc_id
       \/ \* vpcs['Vpcs'] is empty
          /\ vpcs = {}
          /\ Propagates(r, IndexError)
          /\ Traced(r, <<Step("describe_vpcs", 0, "empty")>>)
          /\ UNCHANGED vpc_id
       \/ \* vpcs['Vpcs'][0]: the list has no guaranteed order
          /\ \E v \in vpcs : vpc_id' = [vpc_id EXCEPT ![r] = v]
          /\ Goto(r, "create_security_group")
          /\ Traced(r, <<Step("describe_vpcs", 0, "ok")>>)
          /\ UNCHANGED <<exit, log>>
    /\ UNCHANGED <<cloudVars, sg_id, instance, attempts, resolvedBefore>>

(* ------------------ create_security_group(), lines 53-90 -------------- *)

\* except ClientError as e (lines 83-90), for an error e raised by the call
\* recorded in steps.
ResolverFailed(r, e, steps) ==
    IF IsDuplicate(e)
    THEN /\ Goto(r, "describe_security_groups")
         /\ Traced(r, steps)
         /\ UNCHANGED <<exit, log>>
    ELSE /\ Ends(r, SysExit(1))
         /\ Logged(r, <<"ERROR">>)
         /\ Traced(r, steps)

\* ec2.create_security_group(GroupName, Description, VpcId), lines 55-61.
CreateSecurityGroup(r) ==
    /\ pc[r] = "create_security_group"
    /\ resolvedBefore' = [resolvedBefore EXCEPT ![r] = {q \in Runs : ResolverReturned(q)}]
    /\ \/ \* the name is taken in this network
          /\ GroupsNamed(EC2_SECURITY_GROUP_NAME, vpc_id[r]) # {}
          /\ ResolverFailed(r, ClientError("InvalidGroup.Duplicate", "CreateSecurityGroup"),
                            <<Step("create_security_group", 0, "InvalidGroup.Duplicate")>>)
          /\ UNCHANGED <<groups, nextGroupId, sg_id>>
       \/ \* rejected for another reason
          /\ ResolverFailed(r, Rejection("CreateSecurityGroup"),
                            <<Step("create_security_group", 0, "rejected")>>)
          /\ UNCHANGED <<groups, nextGroupId, sg_id>>
       \/ \* created: the provider assigns the identifier
          /\ GroupsNamed(EC2_SECURITY_GROUP_NAME, vpc_id[r]) = {}
          /\ groups' = groups \cup
                {[GroupId |-> nextGroupId, GroupName |-> EC2_SECURITY_GROUP_NAME,
                  VpcId |-> vpc_id[r], IpPermissions |-> {}, createdBy |-> r,
                  authorizedBy |-> {}]}
          /\ nextGroupId' = nextGroupId + 1
          /\ sg_id' = [sg_id EXCEPT ![r] = nextGroupId]
          /\ Goto(r, "authorize_security_group_ingress")
          /\ Logged(r, <<"INFO">>)
          /\ Traced(r, <<Step("create_security_group", nextGroupId, "ok")>>)
          /\ UNCHANGED exit
    /\ UNCHANGED <<vpcs, instances, vpc_id, instance, attempts>>

AuthorizeRollsBack(r) ==
    /\ pc[r] = "authorize_security_group_ingress"
    /\ \/ /\ groups' = {IF g.GroupId = sg_id[r]
                        THEN [g EXCEPT !.IpPermissions = @ \cup IpPermissions,
                                       !.authorizedBy = @ \cup {r}]
                        ELSE g : g \in groups}
          /\ Goto(r, "create_instances")
          /\ Logged(r, <<"INFO">>)
          /\ Traced(r, <<Step("authorize_security_group_ingress", sg_id[r], "ok"),
                         Step("return sg_id", sg_id[r], "ok")>>)
          /\ UNCHANGED exit
       \/ /\ ResolverFailed(r, Rejection("AuthorizeSecurityGroupIngress"),
                            <<Step("authorize_security_group_ingress", sg_id[r], "rejected")>>)
          /\ groups' = {g \in groups : g.GroupId # sg_id[r]}
    /\ UNCHANGED <<vpcs, nextGroupId, instances, vpc_id, sg_id, instance, attempts,
                   resolvedBefore>>

\* ec2.authorize_security_group_ingress(GroupId=sg_id, IpPermissions), lines 64-82.
AuthorizeSecurityGroupIngress(r) ==
    /\ pc[r] = "authorize_security_group_ingress"
    /\ \/ /\ groups' = {IF g.GroupId = sg_id[r]
                        THEN [g EXCEPT !.IpPermissions = @ \cup IpPermissions,
                                       !.authorizedBy = @ \cup {r}]
                        ELSE g : g \in groups}
          /\ Goto(r, "create_instances")
          /\ Logged(r, <<"INFO">>)
          /\ Traced(r, <<Step("authorize_security_group_ingress", sg_id[r], "ok"),
                         Step("return sg_id", sg_id[r], "ok")>>)
          /\ UNCHANGED exit
       \/ /\ ResolverFailed(r, Rejection("AuthorizeSecurityGroupIngress"),
                            <<Step("authorize_security_group_ingress", sg_id[r], "rejected")>>)
          /\ UNCHANGED groups
    /\ UNCHANGED <<vpcs, nextGroupId, instances, vpc_id, sg_id, instance, attempts,
                   resolvedBefore>>

DescribeThenAuthorize(r) ==
    /\ pc[r] = "describe_security_groups"
    /\ \/ \E g \in GroupsNamed(EC2_SECURITY_GROUP_NAME, DefaultVpc) :
             /\ sg_id' = [sg_id EXCEPT ![r] = g.GroupId]
             /\ Goto(r, "authorize_security_group_ingress")
             /\ Traced(r, <<Step("describe_security_groups", 0, "ok")>>)
             /\ UNCHANGED <<exit, log>>
       \/ /\ GroupsNamed(EC2_SECURITY_GROUP_NAME, DefaultVpc) = {}
          /\ Propagates(r, ClientError("InvalidGroup.NotFound", "DescribeSecurityGroups"))
          /\ Traced(r, <<Step("describe_security_groups", 0, "InvalidGroup.NotFound")>>)
          /\ UNCHANGED sg_id
    /\ UNCHANGED <<cloudVars, vpc_id, instance, attempts, resolvedBefore>>

\* ec2.describe_security_groups(GroupNames=[name]), lines 86-87.  A request by
\* group name names no network: the provider searches the default network.
\* The call sits in the except clause, so an error it raises is not handled.
DescribeSecurityGroups(r) ==
    /\ pc[r] = "describe_security_groups"
    /\ \/ \E g \in GroupsNamed(EC2_SECURITY_GROUP_NAME, DefaultVpc) :
             /\ sg_id' = [sg_id EXCEPT ![r] = g.GroupId]
             /\ Goto(r, "create_instances")
             /\ Traced(r, <<Step("describe_security_groups", 0, "ok"),
                            Step("return sg_id", g.GroupId, "ok")>>)
             /\ UNCHANGED <<exit, log>>
       \/ /\ GroupsNamed(EC2_SECURITY_GROUP_NAME, DefaultVpc) = {}
          /\ Propagates(r, ClientError("InvalidGroup.NotFound", "DescribeSecurityGroups"))
          /\ Traced(r, <<Step("describe_security_groups", 0, "InvalidGroup.NotFound")>>)
          /\ UNCHANGED sg_id
       \/ /\ Propagates(r, Rejection("DescribeSecurityGroups"))
          /\ Traced(r, <<Step("describe_security_groups", 0, "rejected")>>)
          /\ UNCHANGED sg_id
    /\ UNCHANGED <<cloudVars, vpc_id, instance, attempts, resolvedBefore>>

(* ---------------- launch_ec2_instance(), lines 104-127 ---------------- *)

\* The record of the k-th instance of one create_instances request.
NewInstance(r, k) ==
    [InstanceId |-> Len(instances) + k, State |-> "pending",
     PublicIpAddress |-> NoAddress, Monitoring |-> "disabled",
     SecurityGroupIds |-> {sg_id[r]}, Name |-> EC2_TAG_NAME, launchedBy |-> r]

\* The provider launches at least MinCount and at most MaxCount instances.
Launched(r, n) == [k \in 1..n |-> NewInstance(r, k)]

LaunchFailedButContinues(r, e, steps) ==
    /\ Goto(r, "monitor_instances")
    /\ Logged(r, <<"ERROR">>)
    /\ Traced(r, steps)
    /\ UNCHANGED exit

\* except ClientError as e (lines 125-127), for an exception e raised in the
\* try block by the call recorded in steps.
LaunchFailed(r, e, steps) ==
    IF ExceptClientError(e)
    THEN /\ Ends(r, SysExit(1))
         /\ Logged(r, <<"ERROR">>)
         /\ Traced(r, steps)
    ELSE /\ Propagates(r, e)
         /\ Traced(r, steps)

\* ec2_resource.create_instances(...), lines 105-119.
CreateInstances(r) ==
    /\ pc[r] = "create_instances"
    /\ \/ \E n \in MinCount..MaxCount :
             /\ instances' = instances \o Launched(r, n)
             /\ instance' = [instance EXCEPT ![r] =
                               [id |-> Len(instances) + 1, public_ip_address |-> NoAddress]]
             /\ Goto(r, "wait_until_running")
             /\ Logged(r, <<"INFO">>)
             /\ Traced(r, <<Step("create_instances", Len(instances) + 1, "ok")>>)
             /\ UNCHANGED exit
       \/ /\ LaunchFailed(r, Rejection("RunInstances"),
                          <<Step("create_instances", 0, "rejected")>>)
          /\ UNCHANGED <<instances, instance>>
    /\ UNCHANGED <<vpcs, groups, nextGroupId, vpc_id, sg_id, attempts, resolvedBefore>>

WaitUntilRunningUnbounded(r) ==
    /\ pc[r] = "wait_until_running"
    /\ IF instances[instance[r].id].State = "running"
       THEN /\ Goto(r, "reload")
            /\ Traced(r, <<Step("wait_until_running", instance[r].id, "ok")>>)
            /\ UNCHANGED <<exit, log>>
       ELSE UNCHANGED <<pc, exit, log, trace>>
    /\ UNCHANGED <<cloudVars, vpc_id, sg_id, instance, attempts, resolvedBefore>>

\* instance.wait_until_running(), line 120: one poll of the waiter.  It
\* returns when the instance is running and raises after the last attempt.
WaitUntilRunning(r) ==
    /\ pc[r] = "wait_until_running"
    /\ IF instances[instance[r].id].State = "running"
       THEN /\ Goto(r, "reload")
            /\ attempts' = [attempts EXCEPT ![r] = 0]
            /\ Traced(r, <<Step("wait_until_running", instance[r].id, "ok")>>)
            /\ UNCHANGED <<exit, log>>
       ELSE IF attempts[r] + 1 >= WaiterMaxAttempts
       THEN /\ LaunchFailed(r, WaiterError,
                            <<Step("wait_until_running", instance[r].id, "timeout")>>)
            /\ attempts' = [attempts EXCEPT ![r] = 0]
       ELSE /\ attempts' = [attempts EXCEPT ![r] = @ + 1]
            /\ UNCHANGED <<pc, exit, log, trace>>
    /\ UNCHANGED <<cloudVars, vpc_id, sg_id, instance, resolvedBefore>>

\* instance.reload() and the read of public_ip_address, lines 121-124.
Reload(r) ==
    /\ pc[r] = "reload"
    /\ \/ /\ instance' = [instance EXCEPT ![r].public_ip_address =
                               instances[instance[r].id].PublicIpAddress]
          /\ Goto(r, "monitor_instances")
          /\ Logged(r, <<"INFO">>)
          /\ Traced(r, <<Step("reload", instance[r].id, "ok"),
                         Step("return instance", instance[r].id, "ok")>>)
          /\ UNCHANGED exit
       \/ /\ LaunchFailed(r, Rejection("DescribeInstances"),
                          <<Step("reload", instance[r].id, "rejected")>>)
          /\ UNCHANGED instance
    /\ UNCHANGED <<cloudVars, vpc_id, sg_id, attempts, resolvedBefore>>

(* -------------------- setup_monitoring(), lines 129-136 --------------- *)

MonitoringFailedFatal(r, e, steps) ==
    /\ Ends(r, SysExit(1))
    /\ Logged(r, <<"ERROR">>)
    /\ Traced(r, steps)

\* except ClientError as e (lines 135-136).
MonitoringFailed(r, e, steps) ==
    IF ExceptClientError(e)
    THEN /\ Goto(r, "sleep")
         /\ Logged(r, <<"WARNING">>)
         /\ Traced(r, steps)
         /\ UNCHANGED exit
    ELSE /\ Propagates(r, e)
         /\ Traced(r, steps)

\* ec2_client.monitor_instances(InstanceIds=[instance_id]), line 133.
MonitorInstances(r) ==
    /\ pc[r] = "monitor_instances"
    /\ \/ /\ instances' = [instances EXCEPT ![instance[r].id].Monitoring = "enabled"]
          /\ Goto(r, "sleep")
          /\ Logged(r, <<"INFO">>)
          /\ Traced(r, <<Step("monitor_instances", instance[r].id, "ok")>>)
          /\ UNCHANGED exit
       \/ /\ MonitoringFailed(r, Rejection("MonitorInstances"),
                              <<Step("monitor_instances", instance[r].id, "rejected")>>)
          /\ UNCHANGED instances
    /\ UNCHANGED <<vpcs, groups, nextGroupId, vpc_id, sg_id, instance, attempts,
                   resolvedBefore>>

(* --------------------------- main(), lines 147-155 -------------------- *)

SleepSkipped(r) ==
    /\ pc[r] = "sleep"
    /\ pc' = [pc EXCEPT ![r] = "done"]
    /\ exit' = [exit EXCEPT ![r] = Returned]
    /\ Logged(r, <<"INFO", "INFO", "INFO">>)
    /\ Traced(r, <<Step("report", instance[r].id, "ok")>>)
    /\ UNCHANGED <<cloudVars, vpc_id, sg_id, instance, attempts, resolvedBefore>>

\* time.sleep(60), lines 148-149.
Sleep(r) ==
    /\ pc[r] = "sleep"
    /\ Goto(r, "report")
    /\ Logged(r, <<"INFO">>)
    /\ Traced(r, <<Step("sleep", 0, "ok")>>)
    /\ UNCHANGED <<cloudVars, vpc_id, sg_id, instance, attempts, exit, resolvedBefore>>

\* The endpoint report, lines 152-155, after which main() returns.
Report(r) ==
    /\ pc[r] = "report"
    /\ pc' = [pc EXCEPT ![r] = "done"]
    /\ exit' = [exit EXCEPT ![r] = Returned]
    /\ Logged(r, <<"INFO", "INFO", "INFO">>)
    /\ Traced(r, <<Step("report", instance[r].id, "ok")>>)
    /\ UNCHANGED <<cloudVars, vpc_id, sg_id, instance, attempts, resolvedBefore>>

(* ------------------------------ the cloud ----------------------------- *)

\* A pending instance starts; the provider assigns its public address then,
\* or none when the subnet assigns no public addresses.
InstanceStarts(i) ==
    /\ i \in DOMAIN instances
    /\ instances[i].State = "pending"
    /\ \E a \in {NoAddress, PublicIpOf(i)} :
          instances' = [instances EXCEPT ![i].State = "running",
                                         ![i].PublicIpAddress = a]
    /\ UNCHANGED <<vpcs, groups, nextGroupId, pc, vpc_id, sg_id, instance, attempts,
                   exit, log, trace, resolvedBefore>>

(* --------------------------- specification ---------------------------- *)

Next ==
    \/ \E r \in Runs : Main(r)
    \/ \E r \in Runs : DescribeVpcs(r)
    \/ \E r \in Runs : CreateSecurityGroup(r)
    \/ \E r \in Runs : AuthorizeSecurityGroupIngress(r)
    \/ \E r \in Runs : DescribeSecurityGroups(r)
    \/ \E r \in Runs : CreateInstances(r)
    \/ \E r \in Runs : WaitUntilRunning(r)
    \/ \E r \in Runs : Reload(r)
    \/ \E r \in Runs : MonitorInstances(r)
    \/ \E r \in Runs : Sleep(r)
    \/ \E r \in Runs : Report(r)
    \/ \E i \in DOMAIN instances : InstanceStarts(i)

Spec == Init /\ [][Next]_vars

\* The steps of run r.  A run is one sequential process: as long as it has
\* a next statement, it executes it.
RunNext(r) ==
    \/ Main(r)
    \/ DescribeVpcs(r)
    \/ CreateSecurityGroup(r)
    \/ AuthorizeSecurityGroupIngress(r)
    \/ DescribeSecurityGroups(r)
    \/ CreateInstances(r)
    \/ WaitUntilRunning(r)
    \/ Reload(r)
    \/ MonitorInstances(r)
    \/ Sleep(r)
    \/ Report(r)

\* The runs keep executing; the provider is under no obligation to ever
\* start an instance.
FairSpec == Spec /\ \A r \in Runs : WF_vars(RunNext(r))

(* ------------------------- reading the history ------------------------ *)

\* Run r has taken step op with result res.
Has(r, op, res) ==
    \E i \in 1..Len(trace[r]) : trace[r][i].op = op /\ trace[r][i].res = res

\* How many times run r has taken step op, whatever the result.
Count(r, op) == Cardinality({i \in 1..Len(trace[r]) : trace[r][i].op = op})

\* The group with identifier id, as a set (empty when there is none).
GroupOf(id) == {g \in groups : g.GroupId = id}

\* The instances run r has launched.
LaunchedBy(r) == {i \in DOMAIN instances : instances[i].launchedBy = r}

ErrorsLogged(r) == Cardinality({i \in 1..Len(log[r]) : log[r][i] = "ERROR"})

\* What an operator sees of a finished run: how the process ended and the
\* error records in its log.
Outcome(r) == <<exit[r], ErrorsLogged(r)>>

Fatal(r) == pc[r] = "exit" /\ exit[r].kind \in {"sys.exit", "uncaught"} /\ exit[r].status # 0

(* ------------------------------- claims ------------------------------- *)

\* C1: when the resolver is called twice in sequence with the same group
\* name and network, the network never holds two groups of that name and
\* the second call returns the identifier the first call returned.
C1_Idempotent ==
    \A r1 \in Runs, r2 \in Runs :
        ( /\ r1 # r2
          /\ r1 \in resolvedBefore[r2]
          /\ ResolverReturned(r2)
          /\ vpc_id[r1] = vpc_id[r2] )
        => /\ Cardinality(GroupsNamed(EC2_SECURITY_GROUP_NAME, vpc_id[r1])) <= 1
           /\ sg_id[r2] = sg_id[r1]

\* C2: two runs that use the same group name and network: the network holds
\* at most one group of that name, both runs obtain the same identifier, and
\* the run that lost the create to the other run does not end with an error
\* at its fallback lookup (unless the provider refused the lookup request).
C2_GroupNameRace ==
    \A r1 \in Runs, r2 \in Runs :
        (r1 # r2 /\ vpc_id[r1] # None /\ vpc_id[r1] = vpc_id[r2])
        => /\ Cardinality(GroupsNamed(EC2_SECURITY_GROUP_NAME, vpc_id[r1])) <= 1
           /\ (ResolverReturned(r1) /\ ResolverReturned(r2)) => sg_id[r1] = sg_id[r2]
           /\ ( /\ Has(r1, "create_security_group", "ok")
                /\ Has(r2, "create_security_group", "InvalidGroup.Duplicate") )
              => ~Has(r2, "describe_security_groups", "InvalidGroup.NotFound")

\* C3: after create-group failed with the duplicate-name condition and the
\* fallback has run (the provider not refusing the lookup request), the run
\* has made exactly one lookup call and no authorize-ingress call, and the
\* resolver has returned the identifier of a group of the configured name
\* that the run did not create, without the run ending.
C3_DuplicateFallback ==
    \A r \in Runs :
        ( /\ Has(r, "create_security_group", "InvalidGroup.Duplicate")
          /\ pc[r] # "describe_security_groups"
          /\ ~Has(r, "describe_security_groups", "rejected") )
        => /\ Count(r, "describe_security_groups") = 1
           /\ Count(r, "authorize_security_group_ingress") = 0
           /\ ResolverReturned(r)
           /\ \E g \in GroupOf(sg_id[r]) :
                 g.GroupName = EC2_SECURITY_GROUP_NAME /\ g.createdBy # r

\* C4: whenever the resolver has returned the identifier of a group that a
\* run of this system created, that group's rule set is exactly the
\* configured one (tcp 22 and tcp 80 from 0.0.0.0/0).
C4_IngressCorrect ==
    \A r \in Runs :
        ResolverReturned(r)
        => \A g \in GroupOf(sg_id[r]) :
              g.createdBy \in Runs => g.IpPermissions = IpPermissions

\* C5: every run issues the create-instance request at most once and never
\* again after a rejection; a run that reached REPORTED has launched exactly
\* one instance, tagged with the configured name; any run has launched at
\* most one.
C5_ExactlyOneInstance ==
    \A r \in Runs :
        /\ Count(r, "create_instances") <= 1
        /\ Cardinality(LaunchedBy(r)) <= 1
        /\ Has(r, "create_instances", "rejected") => LaunchedBy(r) = {}
        /\ pc[r] = "done"
           => /\ Cardinality(LaunchedBy(r)) = 1
              /\ \A i \in LaunchedBy(r) : instances[i].Name = EC2_TAG_NAME

C5_Witness ==
    \E r1 \in Runs, r2 \in Runs :
        /\ pc[r1] = "done" /\ LaunchedBy(r1) # {}
        /\ Fatal(r2) /\ LaunchedBy(r2) # {}

\* C6: a run whose enable-monitoring request was rejected is not aborted: it
\* is at the settle wait, at the report, or has returned normally; the
\* instance is still running with monitoring as it was; and when the run
\* has reported, the report names the instance the run launched and its
\* address, as in a run whose monitoring request succeeded.
C6_MonitoringFailureNonFatal ==
    \A r \in Runs :
        Has(r, "monitor_instances", "rejected")
        => /\ pc[r] \in {"sleep", "report", "done"}
           /\ exit[r] \in {StillRunning, Returned}
           /\ instance[r].id \in LaunchedBy(r)
           /\ instances[instance[r].id].State = "running"
           /\ instances[instance[r].id].Monitoring = "disabled"
           /\ instance[r].public_ip_address = instances[instance[r].id].PublicIpAddress
           /\ pc[r] = "done"
              => /\ exit[r] = Returned
                 /\ Has(r, "sleep", "ok")
                 /\ trace[r][Len(trace[r])] = Step("report", instance[r].id, "ok")

C6_Witness ==
    \E r1 \in Runs, r2 \in Runs :
        /\ pc[r1] = "done" /\ Has(r1, "monitor_instances", "rejected")
        /\ pc[r2] = "done" /\ Has(r2, "monitor_instances", "ok")

\* C7: a run whose create-instance request was rejected has ended there, with
\* a non-zero exit status, and has made no wait, no enable-monitoring
\* request, no settle wait and no report.
C7_CreationFailureAborts ==
    \A r \in Runs :
        Has(r, "create_instances", "rejected")
        => /\ Fatal(r)
           /\ trace[r][Len(trace[r])] = Step("create_instances", 0, "rejected")
           /\ Count(r, "wait_until_running") = 0
           /\ Count(r, "monitor_instances") = 0
           /\ Count(r, "sleep") = 0
           /\ Count(r, "report") = 0

C7_Witness == \E r \in Runs : Has(r, "create_instances", "rejected") /\ pc[r] = "exit"

\* C8: a run whose wait for the running state timed out has ended fatally
\* with no monitoring, settle or report step; its outcome differs from the
\* outcome of every run whose create-instance request was rejected; and the
\* instance it launched is still there, not terminated.
C8_Timeout ==
    \A r \in Runs :
        Has(r, "wait_until_running", "timeout")
        => /\ Fatal(r)
           /\ Count(r, "monitor_instances") = 0
           /\ Count(r, "sleep") = 0
           /\ Count(r, "report") = 0
           /\ \A q \in Runs :
                 Has(q, "create_instances", "rejected") => Outcome(r) # Outcome(q)
           /\ instance[r].id \in LaunchedBy(r)
           /\ instances[instance[r].id].State \in {"pending", "running"}

C8_Witness ==
    \E r \in Runs, q \in Runs :
        /\ Has(r, "wait_until_running", "timeout")
        /\ instances[instance[r].id].State = "pending"
        /\ Has(q, "create_instances", "rejected")

\* The stage of the orchestrator's state machine a position belongs to:
\* 0 START, 1 GROUP_RESOLVED, 2 INSTANCE_RUNNING, 3 MONITORING_ATTEMPTED,
\* 4 SETTLED, 5 REPORTED.
StageAt(label) ==
    CASE label \in {"main", "describe_vpcs", "create_security_group",
                    "authorize_security_group_ingress",
                    "describe_security_groups"} -> 0
      [] label \in {"create_instances", "wait_until_running", "reload"} -> 1
      [] label = "monitor_instances" -> 2
      [] label = "sleep" -> 3
      [] label = "report" -> 4
      [] label = "done" -> 5

\* The stage a step of the history completes, and its place in the order
\* of main.py.
StageReached(op) ==
    CASE op = "return sg_id" -> 1
      [] op = "return instance" -> 2
      [] op = "monitor_instances" -> 3
      [] op = "sleep" -> 4
      [] op = "report" -> 5
      [] OTHER -> 0

\* The stages run r has completed, in the order it completed them.
RECURSIVE StagesOf(_)
StagesOf(steps) ==
    IF steps = <<>> THEN <<>>
    ELSE LET rest == StagesOf(SubSeq(steps, 1, Len(steps) - 1))
             s == StageReached(steps[Len(steps)].op)
         IN IF s = 0 THEN rest ELSE Append(rest, s)

\* Index of the first step op of run r (0 when there is none).
IndexOf(r, op) ==
    IF Count(r, op) = 0 THEN 0
    ELSE CHOOSE i \in 1..Len(trace[r]) :
            /\ trace[r][i].op = op
            /\ \A j \in 1..(i - 1) : trace[r][j].op # op

\* C9: the stages of a run are completed in the order GROUP_RESOLVED,
\* INSTANCE_RUNNING, MONITORING_ATTEMPTED, SETTLED, REPORTED, none skipped or
\* repeated (the stages completed so far are 1, 2, ..., k), and a run that is
\* still going is at stage k; the instance is created only after the group
\* identifier was returned; monitoring is requested only for the instance the
\* run launched, after the wait saw it running; the report comes after the
\* settle wait; and the report is the last step of a run that reached
\* REPORTED.
C9_LinearStageOrder ==
    \A r \in Runs :
        LET done == StagesOf(trace[r]) IN
        /\ \A k \in 1..Len(done) : done[k] = k
        /\ pc[r] # "exit" => StageAt(pc[r]) = Len(done)
        /\ Count(r, "create_instances") > 0
           => /\ ResolverReturned(r)
              /\ IndexOf(r, "return sg_id") < IndexOf(r, "create_instances")
        /\ \A i \in 1..Len(trace[r]) :
              trace[r][i].op = "monitor_instances"
              => /\ trace[r][i].arg \in LaunchedBy(r)
                 /\ instances[trace[r][i].arg].State = "running"
                 /\ \E j \in 1..(i - 1) :
                       trace[r][j] = Step("wait_until_running", trace[r][i].arg, "ok")
        /\ Count(r, "report") > 0
           => /\ Count(r, "sleep") = 1
              /\ IndexOf(r, "sleep") < IndexOf(r, "report")
              /\ trace[r][Len(trace[r])].op = "report"
              /\ pc[r] = "done"
        /\ pc[r] = "done" => trace[r][Len(trace[r])].op = "report"

C9_Witness ==
    \E r \in Runs : pc[r] = "done" /\ StagesOf(trace[r]) = <<1, 2, 3, 4, 5>>

\* C10: a run whose create-group or authorize-ingress call failed with a
\* condition other than duplicate-name has ended with a non-zero exit status,
\* has made no lookup and has issued no create-instance request.
C10_ResolverFailureFatal ==
    \A r \in Runs :
        ( \/ Has(r, "create_security_group", "rejected")
          \/ Has(r, "authorize_security_group_ingress", "rejected") )
        => /\ Fatal(r)
           /\ exit[r].status = 1
           /\ Count(r, "describe_security_groups") = 0
           /\ Count(r, "create_instances") = 0
           /\ LaunchedBy(r) = {}

C10_Witness ==
    \E r1 \in Runs, r2 \in Runs :
        /\ Has(r1, "create_security_group", "rejected")
        /\ Has(r2, "authorize_security_group_ingress", "rejected")

\* C11: no step of any run rolls anything back.  The step by which a run
\* ends fatally changes no group and no instance; and no step at all removes
\* a group, takes a rule away from a group, removes an instance or moves an
\* instance to another state than from pending to running (no delete,
\* terminate or revoke operation).
C11_NoRollback ==
    [][ /\ \A r \in Runs :
              (pc[r] # "exit" /\ pc'[r] = "exit")
              => (groups' = groups /\ instances' = instances)
        /\ \A g \in groups :
              \E h \in groups' :
                 /\ h.GroupId = g.GroupId
                 /\ h.GroupName = g.GroupName
                 /\ h.VpcId = g.VpcId
                 /\ g.IpPermissions \subseteq h.IpPermissions
        /\ \A i \in DOMAIN instances :
              /\ i \in DOMAIN instances'
              /\ instances'[i].SecurityGroupIds = instances[i].SecurityGroupIds
              /\ \/ instances'[i].State = instances[i].State
                 \/ instances[i].State = "pending" /\ instances'[i].State = "running"
      ]_vars

C11_Witness ==
    \E r1 \in Runs, r2 \in Runs :
        /\ Fatal(r1)
        /\ Has(r1, "authorize_security_group_ingress", "rejected")
        /\ \E g \in groups : g.createdBy = r1 /\ g.IpPermissions = {}
        /\ Fatal(r2)
        /\ Has(r2, "wait_until_running", "timeout")
        /\ \E i \in LaunchedBy(r2) : instances[i].State = "pending"
        /\ \E g \in groups : g.GroupId = sg_id[r2]

\* C12: under fair scheduling of the runs' steps every run eventually
\* reaches a terminal state, REPORTED or a fatal exit, whatever the provider
\* answers and even when its instance stays pending for ever.
C12_Termination == \A r \in Runs : <>(pc[r] \in {"done", "exit"})

C12_Witness ==
    \E r1 \in Runs, r2 \in Runs :
        /\ pc[r1] = "exit"
        /\ Has(r1, "wait_until_running", "timeout")
        /\ instances[instance[r1].id].State = "pending"
        /\ pc[r2] = "done"

\* The step at which run r ended (its last step).
LastStep(r) == trace[r][Len(trace[r])]

\* The fatal conditions: no network, a group failure other than
\* duplicate-name, a failed fallback lookup, a rejected instance creation and
\* a timeout of the wait for the running state.
FatalConditions ==
    { <<"describe_vpcs", "empty">>,
      <<"create_security_group", "rejected">>,
      <<"authorize_security_group_ingress", "rejected">>,
      <<"describe_security_groups", "InvalidGroup.NotFound">>,
      <<"describe_security_groups", "rejected">>,
      <<"create_instances", "rejected">>,
      <<"wait_until_running", "timeout">> }

\* C13: a run that ended fatally on one of the fatal conditions has emitted
\* exactly one error log record, and a run that reached REPORTED has emitted
\* none.
C13_FatalLoggedOnce ==
    \A r \in Runs :
        /\ ( /\ Fatal(r)
             /\ <<LastStep(r).op, LastStep(r).res>> \in FatalConditions )
           => ErrorsLogged(r) = 1
        /\ pc[r] = "done" => ErrorsLogged(r) = 0

\* C14: when launch_ec2_instance has returned, the instance is one the run
\* launched, it is running, and the address read after the running
\* transition is an assigned public address; so the address of the report
\* is never absent.
C14_AddressAtReturn ==
    \A r \in Runs :
        Has(r, "return instance", "ok")
        => /\ instance[r].id \in LaunchedBy(r)
           /\ instances[instance[r].id].State = "running"
           /\ instance[r].public_ip_address = instances[instance[r].id].PublicIpAddress
           /\ instance[r].public_ip_address # NoAddress

\* What setup_monitoring(instance_id) returns to main(): the function has no
\* return statement on either path, so None whether the request succeeded
\* (res = "ok") or was rejected.
SetupMonitoringReturn(res) == None

\* What main() holds when it reports: the instance object launch returned
\* and whatever setup_monitoring returned (line 145 discards it).
DeploymentResult(r) ==
    [instanceId |-> instance[r].id,
     address |-> instance[r].public_ip_address,
     monitoringEnabled |->
        IF Has(r, "monitor_instances", "ok")
        THEN SetupMonitoringReturn("ok")
        ELSE SetupMonitoringReturn("rejected")]

\* C15: the result of a run that reached REPORTED names the instance the run
\* launched and its address, and its monitoring-enabled flag is True exactly
\* when the run's enable-monitoring request succeeded and False when it was
\* rejected.
C15_ResultFlag ==
    \A r \in Runs :
        pc[r] = "done"
        => /\ DeploymentResult(r).instanceId \in LaunchedBy(r)
           /\ DeploymentResult(r).address
                 = instances[DeploymentResult(r).instanceId].PublicIpAddress
           /\ Has(r, "monitor_instances", "ok")
                 <=> DeploymentResult(r).monitoringEnabled = "True"
           /\ Has(r, "monitor_instances", "rejected")
                 <=> DeploymentResult(r).monitoringEnabled = "False"

\* C16: ingress rules are applied at most once per group: every
\* authorize-ingress call of a run is made on the identifier that the run's
\* own successful create-group call returned, a run makes at most one such
\* call, a group has been authorized by nobody but the run that created it,
\* and a run that took the duplicate fallback has made no authorize call.
C16_IngressAtMostOnce ==
    /\ \A r \in Runs :
          /\ Count(r, "authorize_security_group_ingress") <= 1
          /\ \A i \in 1..Len(trace[r]) :
                trace[r][i].op = "authorize_security_group_ingress"
                => \E j \in 1..(i - 1) :
                      trace[r][j] = Step("create_security_group", trace[r][i].arg, "ok")
          /\ Has(r, "create_security_group", "InvalidGroup.Duplicate")
             => Count(r, "authorize_security_group_ingress") = 0
    /\ \A g \in groups :
          /\ g.authorizedBy \subseteq {g.createdBy} \cap Runs
          /\ Cardinality({r \in Runs :
                Has(r, "authorize_security_group_ingress", "ok") /\ sg_id[r] = g.GroupId
                /\ Has(r, "create_security_group", "ok")}) <= 1
          /\ g.createdBy = 0 => g.IpPermissions \in PreExistingRuleSets

C16_Witness ==
    \E r1 \in Runs, r2 \in Runs :
        /\ Has(r1, "authorize_security_group_ingress", "ok")
        /\ Has(r2, "create_security_group", "InvalidGroup.Duplicate")
        /\ ResolverReturned(r2)
        /\ sg_id[r2] = sg_id[r1]

\* C17: the identifier the resolver returned identifies a group that has the
\* configured name and lies in the network that was passed to the resolver.
C17_GroupInNetwork ==
    \A r \in Runs :
        ResolverReturned(r)
        => \E g \in GroupOf(sg_id[r]) :
              /\ g.GroupName = EC2_SECURITY_GROUP_NAME
              /\ g.VpcId = vpc_id[r]

====
